---- MODULE Spec2Model ----
(***************************************************************************)
(* Model of largegroup_schema/scripts/validator.py: the command-line       *)
(* validator for JSON Schemas, JSON instances and OpenAPI documents.       *)
(*                                                                         *)
(* A path is the sequence of tokens of str(path): "/" separates the        *)
(* segments, "." is the dot, every other token is a run of letters.        *)
(* The third-party engines (json, yaml, jsonschema, openapi validator,     *)
(* urllib) and the file system are the environment: each call's answer is  *)
(* drawn when the call is made (the env record of an action).              *)
(***************************************************************************)
EXTENDS Integers, Sequences, FiniteSets, TLC

VARIABLES args, tree, pc, i, walked, out, log, exit

vars == <<args, tree, pc, i, walked, out, log, exit>>

----------------------------------------------------------------------------
(* Bounds of the model *)

MaxFiles == 2
MaxNameLen == 5
MaxDirSegs == 2

----------------------------------------------------------------------------
(* Strings and paths *)

SLASH == "/"
DOT == "."

NoPath == <<>>

EndsWith(s, t) ==
    /\ Len(s) >= Len(t)
    /\ SubSeq(s, Len(s) - Len(t) + 1, Len(s)) = t

StartsWith(s, t) ==
    /\ Len(s) >= Len(t)
    /\ SubSeq(s, 1, Len(t)) = t

Contains(s, t) ==
    \E k \in 1..(Len(s) - Len(t) + 1) : SubSeq(s, k, k + Len(t) - 1) = t

LastIndexOf(s, c) ==
    LET hits == {k \in 1..Len(s) : s[k] = c}
    IN IF hits = {} THEN 0 ELSE CHOOSE k \in hits : \A h \in hits : h <= k

\* path.name: the final segment
Name(p) == SubSeq(p, LastIndexOf(p, SLASH) + 1, Len(p))

\* path.suffix (pathlib, CPython <= 3.12): from the last dot of the name,
\* unless that dot is the first or the last character of the name
Suffix(p) ==
    LET n == Name(p)
        d == LastIndexOf(n, DOT)
    IN IF 1 < d /\ d < Len(n) THEN SubSeq(n, d, Len(n)) ELSE <<>>

\* path.with_suffix(suf)
WithSuffix(p, suf) ==
    LET old == Suffix(p)
    IN SubSeq(p, 1, Len(p) - Len(old)) \o suf

\* str.replace(old, new): every non-overlapping occurrence, left to right
RECURSIVE Replace(_, _, _)
Replace(s, old, new) ==
    IF Len(s) < Len(old) THEN s
    ELSE IF StartsWith(s, old)
         THEN new \o Replace(SubSeq(s, Len(old) + 1, Len(s)), old, new)
         ELSE <<Head(s)>> \o Replace(Tail(s), old, new)

JsonSuffix == <<DOT, "json">>
YamlSuffixes == {<<DOT, "yaml">>, <<DOT, "yml">>}
SchemaJsonSuffix == <<DOT, "schema", DOT, "json">>
SchemaInfix == <<DOT, "schema", DOT>>
InstancesDir == <<"instances", SLASH, "json">>
SchemasDir == <<"schemas", SLASH, "json">>

----------------------------------------------------------------------------
(* The environment's answers, events, errors and report lines *)

\* what open() + json.load / yaml.safe_load does for a file
LoadOutcomes == {"ok", "parse", "missing"}

\* The value json.load returned, as far as validate_json_instance looks at
\* it: its Python type; for a dict whether it has the key "$schema" and
\* whether that value is a str (then path is the str); for a list whether
\* "$schema" is an element; for a str whether "$schema" is a substring.
Doc(type, has, isStr, path) ==
    [type |-> type, has |-> has, isStr |-> isStr, path |-> path]

DocNone == Doc("unread", FALSE, FALSE, NoPath)

DeclaredSchema == <<"s", DOT, "schema", DOT, "json">>

Docs ==
    {Doc("dict", FALSE, FALSE, NoPath),
     Doc("dict", TRUE, TRUE, DeclaredSchema),
     Doc("dict", TRUE, FALSE, NoPath),
     Doc("list", FALSE, FALSE, NoPath),
     Doc("list", TRUE, FALSE, NoPath),
     Doc("str", FALSE, FALSE, NoPath),
     Doc("str", TRUE, FALSE, NoPath),
     Doc("int", FALSE, FALSE, NoPath),
     Doc("none", FALSE, FALSE, NoPath)}

Env(load, doc, exists, sload, check, net, valid) ==
    [load |-> load, doc |-> doc, exists |-> exists, sload |-> sload,
     check |-> check, net |-> net, valid |-> valid]

\* the answers validate_json_schema can ask for
EnvSchema ==
    {Env(l, DocNone, TRUE, "ok", c, n, v) :
        l \in LoadOutcomes, c \in BOOLEAN, n \in BOOLEAN, v \in BOOLEAN}

\* the answers validate_openapi_spec can ask for
EnvOpenapi ==
    {Env(l, DocNone, TRUE, "ok", TRUE, TRUE, v) :
        l \in LoadOutcomes, v \in BOOLEAN}

\* the answers validate_instance_against_schema can ask for
EnvAgainst ==
    {Env(l, DocNone, TRUE, sl, TRUE, TRUE, v) :
        l \in LoadOutcomes, sl \in LoadOutcomes, v \in BOOLEAN}

\* the answers validate_json_instance can ask for
EnvInstance ==
    {Env("ok", d, e, sl, TRUE, TRUE, v) :
        d \in Docs, e \in BOOLEAN, sl \in LoadOutcomes, v \in BOOLEAN}
    \cup {Env(l, DocNone, TRUE, "ok", TRUE, TRUE, TRUE) :
        l \in {"parse", "missing"}}

EnvNothing == {Env("ok", DocNone, TRUE, "ok", TRUE, TRUE, TRUE)}

\* one call made by the program: op on path (aux: the schema of an
\* instance validation), what a load returned, and whether it returned
Ev(op, path, aux, doc, ok) ==
    [op |-> op, path |-> path, aux |-> aux, doc |-> doc, ok |-> ok]

\* an exception: class is the except clause of main that catches it,
\* mentions are the paths that str(e) contains
Err(class, cause, mentions) ==
    [class |-> class, cause |-> cause, mentions |-> mentions]

NoErr == Err("none", "none", {})

\* a printed line: its marker, the function that printed it, the paths its
\* text contains and the exception whose message it carries
Line(kind, by, paths, cause) ==
    [kind |-> kind, by |-> by, paths |-> paths, cause |-> cause]

\* what a call leaves behind: the calls made, the lines printed, the
\* exception raised (NoErr: returned normally)
Res(events, lines, err) == [events |-> events, lines |-> lines, err |-> err]

EmptyRes == Res(<<>>, <<>>, NoErr)

\* open() raises FileNotFoundError (its text names the file); json.load
\* raises JSONDecodeError (its text does not)
LoadJsonErr(path, outcome) ==
    IF outcome = "missing"
    THEN Err("Exception", "FileNotFoundError", {path})
    ELSE Err("Exception", "JSONDecodeError", {})

\* yaml.safe_load on a file object raises a YAMLError whose mark names the file
LoadYamlErr(path, outcome) ==
    IF outcome = "missing"
    THEN Err("Exception", "FileNotFoundError", {path})
    ELSE Err("Exception", "YAMLError", {path})

----------------------------------------------------------------------------
(* Validators *)

\* success reported although the metaschema could not be fetched
ValidateJsonSchemaIgnoreFetch(path, env) ==
    LET e1 == <<Ev("validate_json_schema", path, NoPath, DocNone, TRUE),
                Ev("load_json", path, NoPath, DocNone, env.load = "ok")>>
        e2 == e1 \o <<Ev("check_schema", path, NoPath, DocNone, env.check)>>
        e3 == e2 \o <<Ev("fetch", NoPath, NoPath, DocNone, env.net)>>
        e4 == e3 \o <<Ev("validate_meta", path, NoPath, DocNone, env.valid)>>
        okLine == <<Line("ok", "validate_json_schema", {path}, "none")>>
    IN IF env.load # "ok" THEN Res(e1, <<>>, LoadJsonErr(path, env.load))
       ELSE IF ~env.check THEN Res(e2, <<>>, Err("SchemaError", "SchemaError", {}))
       ELSE IF ~env.net THEN Res(e3, okLine, NoErr)
       ELSE IF ~env.valid
            THEN Res(e4, <<>>, Err("ValidationError", "ValidationError", {}))
       ELSE Res(e4, okLine, NoErr)

\* the metaschema fetched before the structural self-check
ValidateJsonSchemaFetchFirst(path, env) ==
    LET e1 == <<Ev("validate_json_schema", path, NoPath, DocNone, TRUE),
                Ev("load_json", path, NoPath, DocNone, env.load = "ok")>>
        e2 == e1 \o <<Ev("fetch", NoPath, NoPath, DocNone, env.net)>>
        e3 == e2 \o <<Ev("check_schema", path, NoPath, DocNone, env.check)>>
        e4 == e3 \o <<Ev("validate_meta", path, NoPath, DocNone, env.valid)>>
    IN IF env.load # "ok" THEN Res(e1, <<>>, LoadJsonErr(path, env.load))
       ELSE IF ~env.net THEN Res(e2, <<>>, Err("Exception", "URLError", {}))
       ELSE IF ~env.check THEN Res(e3, <<>>, Err("SchemaError", "SchemaError", {}))
       ELSE IF ~env.valid
            THEN Res(e4, <<>>, Err("ValidationError", "ValidationError", {}))
       ELSE Res(e4, <<Line("ok", "validate_json_schema", {path}, "none")>>, NoErr)

ValidateJsonSchema(path, env) ==
    LET e1 == <<Ev("validate_json_schema", path, NoPath, DocNone, TRUE),
                Ev("load_json", path, NoPath, DocNone, env.load = "ok")>>
        e2 == e1 \o <<Ev("check_schema", path, NoPath, DocNone, env.check)>>
        e3 == e2 \o <<Ev("fetch", NoPath, NoPath, DocNone, env.net)>>
        e4 == e3 \o <<Ev("validate_meta", path, NoPath, DocNone, env.valid)>>
    IN IF env.load # "ok" THEN Res(e1, <<>>, LoadJsonErr(path, env.load))
       ELSE IF ~env.check THEN Res(e2, <<>>, Err("SchemaError", "SchemaError", {}))
       ELSE IF ~env.net THEN Res(e3, <<>>, Err("Exception", "URLError", {}))
       ELSE IF ~env.valid
            THEN Res(e4, <<>>, Err("ValidationError", "ValidationError", {}))
       ELSE Res(e4, <<Line("ok", "validate_json_schema", {path}, "none")>>, NoErr)

ValidateOpenapiSpec(path, env) ==
    LET e1 == <<Ev("validate_openapi_spec", path, NoPath, DocNone, TRUE),
                Ev("load_yaml", path, NoPath, DocNone, env.load = "ok")>>
        e2 == e1 \o <<Ev("validate_spec", path, NoPath, DocNone, env.valid)>>
    IN IF env.load # "ok" THEN Res(e1, <<>>, LoadYamlErr(path, env.load))
       ELSE IF ~env.valid
            THEN Res(e2, <<>>, Err("ValidationError", "OpenAPIValidationError", {}))
       ELSE Res(e2, <<Line("ok", "validate_openapi_spec", {path}, "none")>>, NoErr)

ValidateInstanceAgainstSchema(instance_path, schema_path, env) ==
    LET e1 == <<Ev("validate_instance_against_schema", instance_path,
                   schema_path, DocNone, TRUE),
                Ev("load_json", schema_path, NoPath, DocNone, env.sload = "ok")>>
        e2 == e1 \o <<Ev("load_json", instance_path, NoPath, DocNone,
                         env.load = "ok")>>
        e3 == e2 \o <<Ev("validate", instance_path, schema_path, DocNone,
                         env.valid)>>
    IN IF env.sload # "ok" THEN Res(e1, <<>>, LoadJsonErr(schema_path, env.sload))
       ELSE IF env.load # "ok"
            THEN Res(e2, <<>>, LoadJsonErr(instance_path, env.load))
       ELSE IF ~env.valid
            THEN Res(e3, <<>>, Err("ValidationError", "ValidationError", {}))
       ELSE Res(e3, <<Line("ok", "validate_instance_against_schema",
                           {instance_path, schema_path}, "none")>>, NoErr)

\* the fallback convention of validate_json_instance
FallbackPath(instance_path) ==
    WithSuffix(Replace(instance_path, InstancesDir, SchemasDir), SchemaJsonSuffix)

\* a callee's result after the caller's own events
After(events, r) == Res(events \o r.events, r.lines, r.err)

\* a declared schema that is absent falling through to the fallback path
ValidateJsonInstanceFallThrough(instance_path, env) ==
    LET e1 == <<Ev("validate_json_instance", instance_path, NoPath, DocNone, TRUE),
                Ev("load_json", instance_path, NoPath, env.doc, env.load = "ok")>>
        typeError == Err("Exception", "TypeError", {})
        declared == env.doc.path
        fallback == FallbackPath(instance_path)
        eA == e1 \o <<Ev("exists", declared, NoPath, DocNone, env.exists)>>
        eB == (IF env.doc.has THEN eA ELSE e1) \o
              <<Ev("exists", fallback, NoPath, DocNone, env.exists)>>
    IN IF env.load # "ok" THEN Res(e1, <<>>, LoadJsonErr(instance_path, env.load))
       ELSE IF env.doc.type \in {"int", "none"} THEN Res(e1, <<>>, typeError)
       ELSE IF env.doc.has /\ env.doc.type # "dict" THEN Res(e1, <<>>, typeError)
       ELSE IF env.doc.has /\ ~env.doc.isStr THEN Res(e1, <<>>, typeError)
       ELSE IF env.doc.has /\ env.exists
            THEN After(eA, ValidateInstanceAgainstSchema(instance_path,
                                                         declared, env))
       ELSE IF ~env.exists
            THEN Res(eB, <<>>, Err("Exception", "FileNotFoundError",
                                   {instance_path, fallback}))
       ELSE After(eB, ValidateInstanceAgainstSchema(instance_path, fallback, env))

ValidateJsonInstance(instance_path, env) ==
    LET e1 == <<Ev("validate_json_instance", instance_path, NoPath, DocNone, TRUE),
                Ev("load_json", instance_path, NoPath, env.doc, env.load = "ok")>>
        typeError == Err("Exception", "TypeError", {})
        declared == env.doc.path
        fallback == FallbackPath(instance_path)
        eA == e1 \o <<Ev("exists", declared, NoPath, DocNone, env.exists)>>
        eB == e1 \o <<Ev("exists", fallback, NoPath, DocNone, env.exists)>>
    IN IF env.load # "ok" THEN Res(e1, <<>>, LoadJsonErr(instance_path, env.load))
       \* "$schema" in instance: an int, bool or None is not iterable
       ELSE IF env.doc.type \in {"int", "none"} THEN Res(e1, <<>>, typeError)
       ELSE IF env.doc.has
            THEN \* instance["$schema"] on a list or a str
                 IF env.doc.type # "dict" THEN Res(e1, <<>>, typeError)
                 \* pathlib.Path(schema_uri) on a value that is no str
                 ELSE IF ~env.doc.isStr THEN Res(e1, <<>>, typeError)
                 ELSE IF ~env.exists
                      THEN Res(eA, <<>>,
                               Err("Exception", "FileNotFoundError", {declared}))
                 ELSE After(eA, ValidateInstanceAgainstSchema(instance_path,
                                                              declared, env))
       ELSE IF ~env.exists
            THEN Res(eB, <<>>, Err("Exception", "FileNotFoundError",
                                   {instance_path, fallback}))
       ELSE After(eB, ValidateInstanceAgainstSchema(instance_path, fallback, env))


----------------------------------------------------------------------------
(* Discovery: classification and dispatch *)

\* the generic .json test placed before the .schema.json test
ClassifyJsonFirst(path) ==
    IF Suffix(path) = JsonSuffix THEN "JSONInstance"
    ELSE IF EndsWith(Name(path), SchemaJsonSuffix) THEN "SchemaFile"
    ELSE IF Suffix(path) \in YamlSuffixes /\ Contains(Name(path), SchemaInfix)
         THEN "OpenAPISpecYAML"
    ELSE IF Suffix(path) \in YamlSuffixes THEN "YAMLInstance"
    ELSE "Skip"

\* the if/elif chain of discover_and_validate, on an entry that is a file
Classify(path) ==
    IF EndsWith(Name(path), SchemaJsonSuffix) THEN "SchemaFile"
    ELSE IF Suffix(path) \in YamlSuffixes /\ Contains(Name(path), SchemaInfix)
         THEN "OpenAPISpecYAML"
    ELSE IF Suffix(path) = JsonSuffix /\ ~EndsWith(Name(path), SchemaJsonSuffix)
         THEN "JSONInstance"
    ELSE IF Suffix(path) \in YamlSuffixes THEN "YAMLInstance"
    ELSE "Skip"

\* the branch taken for one entry of root.rglob("*")
Branch(entry) == IF ~entry.file THEN "NotFile" ELSE Classify(entry.path)

\* the answers the call made in a branch can ask for
EnvFor(branch) ==
    CASE branch = "SchemaFile" -> EnvSchema
      [] branch \in {"OpenAPISpecYAML", "YAMLInstance"} -> EnvOpenapi
      [] branch = "JSONInstance" -> EnvInstance
      [] OTHER -> EnvNothing

\* the call made in a branch
Dispatch(branch, path, env) ==
    CASE branch = "SchemaFile" -> ValidateJsonSchema(path, env)
      [] branch \in {"OpenAPISpecYAML", "YAMLInstance"} -> ValidateOpenapiSpec(path, env)
      [] branch = "JSONInstance" -> ValidateJsonInstance(path, env)
      [] OTHER -> EmptyRes

RepoRoot == <<SLASH, "repo">>

NoArgs == [schema |-> NoPath, instance |-> NoPath]

\* main, no flags: the banner, then discover_and_validate starts
DiscoverStart ==
    /\ pc = "main"
    /\ args.schema = NoPath /\ args.instance = NoPath
    /\ out' = Append(out, Line("info", "main", {RepoRoot}, "none"))
    /\ pc' = "walk"
    /\ UNCHANGED <<args, tree, i, walked, log, exit>>

\* the loop going on after a failure line instead of leaving the process
WalkStepCollectAll ==
    /\ pc = "walk"
    /\ i < Len(tree)
    /\ LET entry == tree[i + 1]
           branch == Branch(entry)
       IN \E env \in EnvFor(branch) :
            LET r == Dispatch(branch, entry.path, env)
            IN /\ log' = log \o r.events
               /\ walked' = Append(walked, [path |-> entry.path, branch |-> branch])
               /\ out' = IF r.err = NoErr THEN out \o r.lines
                         ELSE out \o r.lines \o
                              <<Line("fail", "discover_and_validate",
                                     {entry.path} \cup r.err.mentions,
                                     r.err.cause)>>
               /\ pc' = "walk"
               /\ exit' = exit
    /\ i' = i + 1
    /\ UNCHANGED <<args, tree>>

\* one iteration of the loop of discover_and_validate; an exception prints
\* the failure line and sys.exit(1) ends the process (SystemExit is no
\* Exception: main's handlers let it through)
WalkStep ==
    /\ pc = "walk"
    /\ i < Len(tree)
    /\ LET entry == tree[i + 1]
           branch == Branch(entry)
       IN \E env \in EnvFor(branch) :
            LET r == Dispatch(branch, entry.path, env)
            IN /\ log' = log \o r.events
               /\ walked' = Append(walked, [path |-> entry.path, branch |-> branch])
               /\ IF r.err = NoErr
                  THEN /\ out' = out \o r.lines
                       /\ pc' = "walk"
                       /\ exit' = exit
                  ELSE /\ out' = out \o r.lines \o
                                 <<Line("fail", "discover_and_validate",
                                        {entry.path} \cup r.err.mentions,
                                        r.err.cause)>>
                       /\ pc' = "exited"
                       /\ exit' = "1"
    /\ i' = i + 1
    /\ UNCHANGED <<args, tree>>

\* the loop ends: main prints the closing line and returns
WalkDone ==
    /\ pc = "walk"
    /\ i = Len(tree)
    /\ out' = Append(out, Line("done", "main", {}, "none"))
    /\ pc' = "exited"
    /\ exit' = "0"
    /\ UNCHANGED <<args, tree, i, walked, log>>

----------------------------------------------------------------------------
(* main with --schema and/or --instance *)

\* the except clauses of main
MainExcept(r) ==
    IF r.err = NoErr THEN [lines |-> r.lines, exit |-> "0"]
    ELSE IF r.err.class \in {"ValidationError", "SchemaError"}
         THEN [lines |-> r.lines \o <<Line("fail", "main", {}, r.err.cause)>>,
               exit |-> "1"]
    ELSE [lines |-> r.lines \o <<Line("fail", "main", r.err.mentions, r.err.cause)>>,
          exit |-> "1"]

\* the end of a single-file run
Finish(r) ==
    /\ log' = log \o r.events
    /\ out' = out \o MainExcept(r).lines
    /\ exit' = MainExcept(r).exit
    /\ pc' = "exited"
    /\ UNCHANGED <<args, tree, i, walked>>

SchemaOnlyBranch(schema_path) ==
    IF Suffix(schema_path) = JsonSuffix THEN "json"
    ELSE IF Suffix(schema_path) \in YamlSuffixes THEN "yaml"
    ELSE "none"

MainSchemaOnly ==
    /\ pc = "main"
    /\ args.schema # NoPath /\ args.instance = NoPath
    /\ LET b == SchemaOnlyBranch(args.schema)
       IN \E env \in (CASE b = "json" -> EnvSchema
                        [] b = "yaml" -> EnvOpenapi
                        [] OTHER -> EnvNothing) :
            Finish(CASE b = "json" -> ValidateJsonSchema(args.schema, env)
                     [] b = "yaml" -> ValidateOpenapiSpec(args.schema, env)
                     [] OTHER -> EmptyRes)

SchemaAndInstanceBranch(instance_path, schema_path) ==
    IF Suffix(instance_path) = JsonSuffix /\ Suffix(schema_path) = JsonSuffix
    THEN "json"
    ELSE IF Suffix(instance_path) \in YamlSuffixes THEN "yaml"
    ELSE "none"

MainSchemaAndInstance ==
    /\ pc = "main"
    /\ args.schema # NoPath /\ args.instance # NoPath
    /\ LET b == SchemaAndInstanceBranch(args.instance, args.schema)
       IN \E env \in (CASE b = "json" -> EnvAgainst
                        [] b = "yaml" -> EnvOpenapi
                        [] OTHER -> EnvNothing) :
            Finish(CASE b = "json" ->
                            ValidateInstanceAgainstSchema(args.instance,
                                                          args.schema, env)
                     [] b = "yaml" -> ValidateOpenapiSpec(args.instance, env)
                     [] OTHER -> EmptyRes)

InstanceOnlyBranch(instance_path) ==
    IF Suffix(instance_path) = JsonSuffix THEN "json"
    ELSE IF Suffix(instance_path) \in YamlSuffixes THEN "yaml"
    ELSE "none"

MainInstanceOnly ==
    /\ pc = "main"
    /\ args.instance # NoPath /\ args.schema = NoPath
    /\ LET b == InstanceOnlyBranch(args.instance)
       IN \E env \in (CASE b = "json" -> EnvInstance
                        [] b = "yaml" -> EnvOpenapi
                        [] OTHER -> EnvNothing) :
            Finish(CASE b = "json" -> ValidateJsonInstance(args.instance, env)
                     [] b = "yaml" -> ValidateOpenapiSpec(args.instance, env)
                     [] OTHER -> EmptyRes)

----------------------------------------------------------------------------
(* Inputs and specifications *)

\* the sequences of at most n distinct members of S
DistinctSeqs(S, n) ==
    {q \in UNION {[1..k -> S] : k \in 0..n} :
        \A a, b \in DOMAIN q : a # b => q[a] # q[b]}

Under(rel) == RepoRoot \o <<SLASH>> \o rel

Entry(path, file) == [path |-> path, file |-> file]

\* the command lines of the whole-program specification
SchemaArgs ==
    {NoPath, <<"s", DOT, "json">>, <<"s", DOT, "yaml">>, <<"s", DOT, "txt">>}

InstanceArgs ==
    {NoPath, <<"i", DOT, "json">>, <<"i", DOT, "yml">>, <<"i", DOT, "txt">>}

\* what rglob can yield in the whole-program specification
TreeEntries ==
    {Entry(Under(<<"d">>), FALSE),
     Entry(Under(<<"a", DOT, "schema", DOT, "json">>), TRUE),
     Entry(Under(<<"b", DOT, "schema", DOT, "json">>), TRUE),
     Entry(Under(<<"instances", SLASH, "json", SLASH, "a", DOT, "json">>), TRUE),
     Entry(Under(<<"a", DOT, "yaml">>), TRUE),
     Entry(Under(<<"a", DOT, "schema", DOT, "yml">>), TRUE),
     Entry(Under(<<"a", DOT, "txt">>), TRUE)}

Start ==
    /\ pc = "main"
    /\ i = 0
    /\ walked = <<>>
    /\ out = <<>>
    /\ log = <<>>
    /\ exit = "running"

Init ==
    /\ Start
    /\ args \in [schema : SchemaArgs, instance : InstanceArgs]
    /\ tree \in IF args = NoArgs THEN DistinctSeqs(TreeEntries, MaxFiles)
                ELSE {<<>>}

Next ==
    \/ MainSchemaOnly
    \/ MainSchemaAndInstance
    \/ MainInstanceOnly
    \/ DiscoverStart
    \/ WalkStep
    \/ WalkDone

Spec == Init /\ [][Next]_vars

\* discovery of a single entry with any name
NameTokens == {"a", DOT, "schema", "json", "yaml", "yml"}

Names == UNION {[1..k -> NameTokens] : k \in 1..MaxNameLen}

InitClassify ==
    /\ Start
    /\ args = NoArgs
    /\ \E n \in Names, f \in BOOLEAN : tree = <<Entry(Under(n), f)>>

NextDiscover ==
    \/ DiscoverStart
    \/ WalkStep
    \/ WalkDone

SpecClassify == InitClassify /\ [][NextDiscover]_vars

\* discovery of a single JSON instance in any directory
Segments ==
    {<<"a">>, <<"instances">>, <<"json">>, <<"a", "instances">>, <<"json", "a">>}

RECURSIVE Join(_)
Join(segs) ==
    IF segs = <<>> THEN <<>> ELSE Head(segs) \o <<SLASH>> \o Join(Tail(segs))

Dirs == {Join(q) : q \in UNION {[1..k -> Segments] : k \in 0..MaxDirSegs}}

InstanceNames ==
    {<<"a", DOT, "json">>, <<"a", DOT, "a", DOT, "json">>, <<"json", DOT, "json">>}

InitResolve ==
    /\ Start
    /\ args = NoArgs
    /\ \E d \in Dirs, n \in InstanceNames : tree = <<Entry(Under(d \o n), TRUE)>>

SpecResolve == InitResolve /\ [][NextDiscover]_vars

----------------------------------------------------------------------------
(* Vocabulary of the properties *)

Discovery == args = NoArgs

SingleFile == args # NoArgs

DispatchOps ==
    {"validate_json_schema", "validate_openapi_spec", "validate_json_instance"}

CallOps == DispatchOps \cup {"validate_instance_against_schema"}

IsDispatch(e) == e.op \in DispatchOps

IsMarker(l) == l.kind \in {"ok", "fail"}

IsFail(l) == l.kind = "fail"

IsDispatched(w) == w.branch \notin {"Skip", "NotFile"}

\* the calls discovery made, the marker lines printed, the entries dispatched
Calls == SelectSeq(log, IsDispatch)

Markers == SelectSeq(out, IsMarker)

Fails == SelectSeq(out, IsFail)

Dispatched == SelectSeq(walked, IsDispatched)

\* the index after the events of the call that starts at k
EndOf(k, ops) ==
    LET later == {m \in (k + 1)..Len(log) : log[m].op \in ops}
    IN IF later = {} THEN Len(log) + 1
       ELSE CHOOSE m \in later : \A n \in later : m <= n

ValidatorOf(branch) ==
    CASE branch = "SchemaFile" -> "validate_json_schema"
      [] branch = "JSONInstance" -> "validate_json_instance"
      [] OTHER -> "validate_openapi_spec"

----------------------------------------------------------------------------
(* C1: fail-fast discovery *)

\* C1: in discovery, once a failure line is printed the run has ended with
\* exit 1: the failing entry is the last one consumed, the failure line is
\* the only one, is the last line and names the failing file, no closing
\* "All validations passed" line is printed, no entry later in the traversal
\* order was dispatched or reported, and no further step is possible.
C1_FailFast ==
    (Discovery /\ Fails # <<>>) =>
        /\ exit = "1"
        /\ pc = "exited"
        /\ i >= 1 /\ Len(walked) = i
        /\ \A j \in 1..i : walked[j].path = tree[j].path
        /\ Len(Fails) = 1
        /\ IsFail(out[Len(out)])
        /\ tree[i].path \in out[Len(out)].paths
        /\ \A k \in 1..Len(out) : out[k].kind # "done"
        /\ Len(Calls) = Len(Dispatched)
        /\ \A k \in 1..Len(Calls) : Calls[k].path = Dispatched[k].path
        /\ Calls[Len(Calls)].path = tree[i].path
        /\ Len(Markers) = Len(Calls)
        /\ \A j \in (i + 1)..Len(tree) :
              \A k \in 1..Len(log) :
                 log[k].op \in CallOps => log[k].path # tree[j].path
        /\ ~ENABLED Next

\* a failure with a file that would be dispatched still ahead of it
C1_Witness ==
    /\ Discovery
    /\ exit = "1"
    /\ i < Len(tree)
    /\ IsDispatched([path |-> tree[i + 1].path, branch |-> Branch(tree[i + 1])])

----------------------------------------------------------------------------
(* C2: classification *)

Rules == <<"SchemaFile", "OpenAPISpecYAML", "JSONInstance", "YAMLInstance", "Skip">>

\* the pattern of each rule, as the precedence list states it
Matches(rule, name) ==
    CASE rule = "SchemaFile" -> EndsWith(name, SchemaJsonSuffix)
      [] rule = "OpenAPISpecYAML" ->
            Suffix(name) \in YamlSuffixes /\ Contains(name, SchemaInfix)
      [] rule = "JSONInstance" -> Suffix(name) = JsonSuffix
      [] rule = "YAMLInstance" -> Suffix(name) \in YamlSuffixes
      [] OTHER -> TRUE

\* first match wins
FirstMatch(name) ==
    Rules[CHOOSE r \in 1..Len(Rules) :
            /\ Matches(Rules[r], name)
            /\ \A q \in 1..(r - 1) : ~Matches(Rules[q], name)]

\* C2: every file walked took the branch of the first rule its name
\* matches (a name ending in .schema.json is a SchemaFile, never a
\* JSONInstance), an entry that is no file took none; every dispatched
\* file was passed to exactly the one validator of its rule, and an entry
\* that is skipped or is no file left no call and no line behind.
C2_Classification ==
    /\ \A j \in 1..Len(walked) :
          /\ walked[j].path = tree[j].path
          /\ walked[j].branch =
                IF tree[j].file THEN FirstMatch(Name(tree[j].path)) ELSE "NotFile"
          /\ (tree[j].file /\ EndsWith(Name(tree[j].path), SchemaJsonSuffix))
                => walked[j].branch = "SchemaFile"
    /\ Len(Calls) = Len(Dispatched)
    /\ \A k \in 1..Len(Calls) :
          /\ Calls[k].path = Dispatched[k].path
          /\ Calls[k].op = ValidatorOf(Dispatched[k].branch)
    /\ Len(Markers) = Len(Calls)
    /\ Dispatched = <<>> => log = <<>>

\* a file named *.schema.json, whose extension is .json, was walked
C2_Witness ==
    /\ Len(walked) = 1
    /\ tree[1].file
    /\ EndsWith(Name(tree[1].path), SchemaJsonSuffix)
    /\ Suffix(tree[1].path) = JsonSuffix
    /\ Len(Name(tree[1].path)) > Len(SchemaJsonSuffix)
    /\ Calls # <<>>

----------------------------------------------------------------------------
(* C3, C4, C9: schema resolution in validate_json_instance *)

\* the document is an object whose "$schema" is a string
DeclaresPath(doc) == doc.type = "dict" /\ doc.has /\ doc.isStr

\* the document is an object without "$schema"
LacksSchema(doc) == doc.type = "dict" /\ ~doc.has

\* the events at which validate_json_instance has read its instance
InstanceLoads ==
    {k \in 2..Len(log) :
        /\ log[k - 1].op = "validate_json_instance"
        /\ log[k].op = "load_json"
        /\ log[k].ok}

\* C3: when the instance declares a string "$schema", the only existence
\* check of that validation is on exactly the declared path; if it exists
\* the instance is validated against that path and the fallback path is
\* never checked, loaded or used; if it does not exist the validation ends
\* there with a not-found failure naming the declared path, and the
\* fallback path is not tried.
C3_DeclaredSchema ==
    \A k \in InstanceLoads :
        DeclaresPath(log[k].doc) =>
            LET inst == log[k].path
                decl == log[k].doc.path
                end == EndOf(k, DispatchOps)
            IN /\ k + 1 < end
               /\ log[k + 1].op = "exists"
               /\ log[k + 1].path = decl
               /\ \A m \in (k + 2)..(end - 1) :
                     /\ log[m].op # "exists"
                     /\ log[m].path \in {inst, decl}
                     /\ log[m].aux \in {NoPath, decl}
               /\ log[k + 1].ok =>
                     /\ k + 2 < end
                     /\ log[k + 2].op = "validate_instance_against_schema"
                     /\ log[k + 2].path = inst
                     /\ log[k + 2].aux = decl
               /\ ~log[k + 1].ok =>
                     /\ end = k + 2
                     /\ end = Len(log) + 1
                     /\ exit = "1"
                     /\ IsFail(out[Len(out)])
                     /\ out[Len(out)].cause = "FileNotFoundError"
                     /\ decl \in out[Len(out)].paths
                     /\ FallbackPath(inst) \notin out[Len(out)].paths

\* the declared schema is absent and the run failed on it, for an instance
\* whose fallback path differs from its own directory
C3_Witness ==
    \E k \in InstanceLoads :
        /\ DeclaresPath(log[k].doc)
        /\ ~log[k + 1].ok
        /\ exit = "1"
        /\ Contains(FallbackPath(log[k].path), SchemasDir)

\* the fallback convention on path segments: a segment "instances"
\* followed by a segment "json" becomes "schemas", "json"
RECURSIVE SegmentReplace(_, _)
SegmentReplace(s, atSegmentStart) ==
    IF s = <<>> THEN <<>>
    ELSE IF /\ atSegmentStart
            /\ StartsWith(s, InstancesDir)
            /\ (Len(s) = Len(InstancesDir) \/ s[Len(InstancesDir) + 1] = SLASH)
         THEN SchemasDir \o
              SegmentReplace(SubSeq(s, Len(InstancesDir) + 1, Len(s)), FALSE)
         ELSE <<Head(s)>> \o SegmentReplace(Tail(s), Head(s) = SLASH)

SegmentFallback(instance_path) ==
    WithSuffix(SegmentReplace(instance_path, TRUE), SchemaJsonSuffix)

\* C4: for an instance without "$schema" the path checked is the instance
\* path with the segments instances/json replaced by schemas/json and the
\* final extension replaced by .schema.json, nothing else altered; if it is
\* absent the failure names it, if present it is the schema validated
\* against.
C4_FallbackConvention ==
    \A k \in InstanceLoads :
        LacksSchema(log[k].doc) =>
            LET inst == log[k].path
                attempted == SegmentFallback(inst)
            IN /\ k < Len(log)
               /\ log[k + 1].op = "exists"
               /\ log[k + 1].path = attempted
               /\ log[k + 1].ok =>
                     /\ k + 2 <= Len(log)
                     /\ log[k + 2].op = "validate_instance_against_schema"
                     /\ log[k + 2].aux = attempted
               /\ ~log[k + 1].ok =>
                     /\ IsFail(out[Len(out)])
                     /\ attempted \in out[Len(out)].paths

\* C9: the "$schema" branch is taken only for an object whose "$schema" is
\* a string; any other document (no such field, a value that is no string,
\* an array, a scalar) is resolved by the fallback convention and raises no
\* unrelated error.
C9_BranchSelection ==
    \A k \in InstanceLoads :
        /\ (k < Len(log) /\ log[k + 1].op = "exists"
                /\ log[k + 1].path # FallbackPath(log[k].path))
              => DeclaresPath(log[k].doc)
        /\ ~DeclaresPath(log[k].doc) =>
              /\ k < Len(log)
              /\ log[k + 1].op = "exists"
              /\ log[k + 1].path = FallbackPath(log[k].path)
              /\ \A n \in 1..Len(out) : out[n].cause # "TypeError"

----------------------------------------------------------------------------
(* C8, C10: validate_json_schema and the metaschema fetch *)

SchemaSteps == <<"load_json", "check_schema", "fetch", "validate_meta">>

SchemaCalls == {k \in 1..Len(log) : log[k].op = "validate_json_schema"}

\* the steps a validate_json_schema call went through
StepsOf(k) == EndOf(k, CallOps) - k - 1

Passed(k) == StepsOf(k) = Len(SchemaSteps) /\ log[k + Len(SchemaSteps)].ok

IsSchemaOk(l) == l.kind = "ok" /\ l.by = "validate_json_schema"

\* C8: every validate_json_schema call goes through load, self-check,
\* metaschema fetch and metaschema validation in that order, each at most
\* once and only after the one before it succeeded; the first failing step
\* is the last; and the success lines of validate_json_schema are exactly
\* those of the calls whose four steps all succeeded.
C8_SchemaFileSteps ==
    /\ \A k \in SchemaCalls :
          LET n == StepsOf(k)
          IN /\ n \in 1..Len(SchemaSteps)
             /\ \A j \in 1..n :
                   /\ log[k + j].op = SchemaSteps[j]
                   /\ j < n => log[k + j].ok
             /\ n < Len(SchemaSteps) => ~log[k + n].ok
    /\ Len(SelectSeq(out, IsSchemaOk)) = Cardinality({k \in SchemaCalls : Passed(k)})
    /\ \A n \in 1..Len(out) :
          IsSchemaOk(out[n]) =>
             \E k \in SchemaCalls : Passed(k) /\ out[n].paths = {log[k].path}

\* the metaschema could not be fetched and the run failed
C8_Witness ==
    /\ \E k \in SchemaCalls : StepsOf(k) = 3 /\ ~log[k + 3].ok
    /\ exit = "1"
    /\ SelectSeq(out, IsSchemaOk) = <<>>

Fetches == {k \in 1..Len(log) : log[k].op = "fetch"}

\* C10: every fetch of the metaschema is the step of a validate_json_schema
\* call that follows its successful self-check, there is one fetch for each
\* successful self-check (none is shared between files), and a run without
\* a validate_json_schema call fetches nothing and prints no failure caused
\* by the fetch.
C10_FetchOnlyInSchemaFile ==
    /\ \A k \in Fetches :
          /\ k >= 4
          /\ log[k - 1].op = "check_schema" /\ log[k - 1].ok
          /\ log[k - 2].op = "load_json" /\ log[k - 2].ok
          /\ log[k - 3].op = "validate_json_schema"
          /\ log[k - 1].path = log[k - 3].path
    /\ Cardinality(Fetches) =
          Cardinality({k \in 1..Len(log) : log[k].op = "check_schema" /\ log[k].ok})
    /\ \A k \in 1..Len(log) :
          (log[k].op = "check_schema" /\ log[k].ok) =>
              (k < Len(log) /\ log[k + 1].op = "fetch")
    /\ SchemaCalls = {} =>
          /\ Fetches = {}
          /\ \A n \in 1..Len(out) : out[n].cause # "URLError"
    /\ \A n \in 1..Len(out) :
          out[n].cause = "URLError" => \E k \in Fetches : ~log[k].ok

\* two schema files were validated and the metaschema was fetched for each
C10_Witness ==
    /\ Cardinality(Fetches) = 2
    /\ Cardinality(SchemaCalls) = 2

----------------------------------------------------------------------------
(* C5, C6, C7: exit status and report lines *)

\* the paths given on the command line
Named == {args.schema, args.instance} \ {NoPath}

\* C5: a run exits 1 whenever a step failed, and a single-file run exits 0
\* only if every file named was validated and every step succeeded.
C5_ExitStatus ==
    /\ (pc = "exited" /\ \E k \in 1..Len(log) : ~log[k].ok) => exit = "1"
    /\ (SingleFile /\ exit = "0") =>
          /\ \A k \in 1..Len(log) : log[k].ok
          /\ \A p \in Named :
                \E k \in 1..Len(log) :
                    log[k].op \in CallOps /\ p \in {log[k].path, log[k].aux}

\* C6: a finished single-file run has printed exactly one marker line, its
\* last line; a discovery run has printed one marker line per dispatched file.
C6_ReportLines ==
    /\ (SingleFile /\ pc = "exited") =>
          /\ Len(Markers) = 1
          /\ IsMarker(out[Len(out)])
    /\ Discovery => Len(Markers) = Len(Dispatched)

\* the file a failure line is about
Offending == IF Discovery THEN {tree[i].path} ELSE Named

\* C7: every failure line contains the path of the offending file and the
\* cause of the failure.
C7_FailureLines ==
    \A n \in 1..Len(out) :
        IsFail(out[n]) =>
            /\ out[n].cause # "none"
            /\ out[n].paths \cap Offending # {}

====
